---- MODULE Spec2Model ----
(***************************************************************************)
(* Model of the x402 discovery MCP server (src/server.py).                 *)
(*                                                                         *)
(* Each tool is one action that takes its arguments and the behaviour of   *)
(* the backend for the single request it sends, and leaves the outcome of  *)
(* the invocation in the state.  Text is modelled as sequences of          *)
(* one-character strings; prices are in thousandths of a US dollar.        *)
(***************************************************************************)
EXTENDS Integers, Sequences, FiniteSets, TLC

VARIABLES
  pc,        \* "idle" between invocations, "done" when a tool has ended
  tool,      \* the tool of the current invocation
  args,      \* its arguments
  resp,      \* what the backend did with the request
  outcome,   \* "text" (the tool returned) or "raised" (a fault escaped)
  result,    \* which of the tool's return statements produced the text
  listed,    \* x402_discover: the (score, service) pairs of `top`
  shown,     \* x402_attest: the token text contained in the returned text
  payload,   \* x402_register: the JSON body posted to the backend
  sent,      \* requests sent to the backend by the current invocation
  regCalls,  \* invocations of x402_register so far
  posts      \* POST /register requests sent so far

vars == <<pc, tool, args, resp, outcome, result, listed, shown, payload,
          sent, regCalls, posts>>

----------------------------------------------------------------------------
(* Bounds *)

MaxCatalog == 6      \* longest catalog the backend returns to x402_discover
MaxCalls == 3        \* invocations of x402_register that are counted

----------------------------------------------------------------------------
(* Text *)

Lower(c) ==
  CASE c = "W" -> "w"
    [] c = "X" -> "x"
    [] OTHER -> c

LowerStr(s) == [i \in 1..Len(s) |-> Lower(s[i])]

\* Python's `needle in hay` for strings
Contains(hay, needle) ==
  \E i \in 0..(Len(hay) - Len(needle)) :
     SubSeq(hay, i + 1, i + Len(needle)) = needle

SeqsUpTo(Pool, n) == UNION {[1..k -> Pool] : k \in 0..n}

----------------------------------------------------------------------------
(* Field values of a JSON service record.  t = "absent": the key is       *)
(* missing; t = "null": the key holds a value of an unexpected type.       *)

Str(s) == [t |-> "str", v |-> s]
NoStr == [t |-> "absent", v |-> <<>>]
NullStr == [t |-> "null", v |-> <<>>]

Tier(x) == [t |-> "str", v |-> x]
NoTier == [t |-> "absent", v |-> ""]
NullTier == [t |-> "null", v |-> ""]

Num(n) == [t |-> "num", v |-> n]          \* a JSON number
NumStr(n) == [t |-> "str", v |-> n]       \* a JSON string float() parses
BadStr == [t |-> "bad", v |-> 0]          \* a JSON string float() rejects
NoNum == [t |-> "absent", v |-> 0]

Tags(set) == [t |-> "list", v |-> set]
NoTags == [t |-> "absent", v |-> {}]
NullTags == [t |-> "null", v |-> {}]

Cat(c) == [t |-> "str", v |-> c]
NoCat == [t |-> "absent", v |-> ""]

----------------------------------------------------------------------------
(* x402_discover: filter, score, rank *)

MissingPrice == 999000
TopN == 5
DefaultMaxPrice == 500

quality_order(tier) ==
  CASE tier = "gold" -> 0
    [] tier = "silver" -> 1
    [] tier = "bronze" -> 2
    [] tier = "unverified" -> 3
    [] OTHER -> 3

\* quality_order.get(s.get("quality_tier", "unverified"), 3)
QRank(s) ==
  IF s.quality_tier.t = "str" THEN quality_order(s.quality_tier.v) ELSE 3

\* faulty variant: a missing price counts as free
PriceFloatDefaultZero(s) ==
  CASE s.price_per_call.t = "absent" -> [ok |-> TRUE, v |-> 0]
    [] s.price_per_call.t \in {"num", "str"} ->
         [ok |-> TRUE, v |-> s.price_per_call.v]
    [] OTHER -> [ok |-> FALSE, v |-> 0]

\* float(s.get("price_per_call", 999))
PriceFloat(s) ==
  CASE s.price_per_call.t = "absent" -> [ok |-> TRUE, v |-> MissingPrice]
    [] s.price_per_call.t \in {"num", "str"} ->
         [ok |-> TRUE, v |-> s.price_per_call.v]
    [] OTHER -> [ok |-> FALSE, v |-> 0]

\* faulty variant: the floor taken as a ceiling
QualityOkReversed(s, a) == QRank(s) >= quality_order(a.min_quality)

QualityOk(s, a) == QRank(s) <= quality_order(a.min_quality)

PriceOk(s, a) == PriceFloat(s).v <= a.max_price_usd

\* the filter comprehension; `and` evaluates float() only when the quality
\* test passed
FilterRaises(services, a) ==
  \E i \in 1..Len(services) :
     QualityOk(services[i], a) /\ ~PriceFloat(services[i]).ok

KeepCond(s, a) == QualityOk(s, a) /\ PriceOk(s, a)

Filtered(services, a) == SelectSeq(services, LAMBDA s : KeepCond(s, a))

\* s.get("name", "").lower()
TextOf(field) == IF field.t = "str" THEN LowerStr(field.v) ELSE <<>>

HasCapability(s, a) ==
  a.capability # "" /\ a.capability \in s.capability_tags.v

ScoreRaises(s, a) ==
  \/ s.name.t = "null"
  \/ s.description.t = "null"
  \/ a.capability # "" /\ s.capability_tags.t = "null"

Score(s, a) ==
  LET q == LowerStr(a.query) IN
    (IF Contains(TextOf(s.name), q) THEN 3 ELSE 0)
  + (IF Contains(TextOf(s.description), q) THEN 2 ELSE 0)
  + (IF HasCapability(s, a) THEN 5 ELSE 0)

\* if score > 0 or not query: scored.append((score, s))
Eligible(s, a) == Score(s, a) > 0 \/ a.query = <<>>

Scored(services, a) ==
  LET kept == SelectSeq(services, LAMBDA s : Eligible(s, a))
  IN [i \in 1..Len(kept) |-> [score |-> Score(kept[i], a), s |-> kept[i]]]

\* faulty variant: the sort key without its quality tie-break
KeyBeforeScoreOnly(x, y) == x.score > y.score

\* the sort key (-score, quality rank): x sorts strictly before y
KeyBefore(x, y) ==
  \/ x.score > y.score
  \/ x.score = y.score /\ QRank(x.s) < QRank(y.s)

\* list.sort is stable: x goes after every element it does not precede
RECURSIVE InsertStable(_, _)
InsertStable(sorted, x) ==
  IF sorted = <<>> THEN <<x>>
  ELSE IF KeyBefore(x, Head(sorted)) THEN <<x>> \o sorted
  ELSE <<Head(sorted)>> \o InsertStable(Tail(sorted), x)

RECURSIVE SortScored(_)
SortScored(seq) ==
  IF seq = <<>> THEN <<>>
  ELSE InsertStable(SortScored(SubSeq(seq, 1, Len(seq) - 1)), seq[Len(seq)])

\* faulty variant: the slice one element too long
TopOneMore(seq) ==
  SubSeq(seq, 1, IF Len(seq) < TopN + 1 THEN Len(seq) ELSE TopN + 1)

\* scored[:5]
Top(seq) == SubSeq(seq, 1, IF Len(seq) < TopN THEN Len(seq) ELSE TopN)

\* the per-service text: s.get('quality_tier', 'unverified').upper()
FormatRaises(top) ==
  \E i \in 1..Len(top) : top[i].s.quality_tier.t = "null"

----------------------------------------------------------------------------
(* The backend: what one request meets *)

NoToken == [t |-> "absent", v |-> <<>>]

NoBody == [t |-> "none", services |-> <<>>, attestation |-> NoToken]

NoResp == [kind |-> "none", status |-> 0, body |-> NoBody]

Catalog(services) ==
  [t |-> "object", services |-> services, attestation |-> NoToken]

ArrayBody == [t |-> "array", services |-> <<>>, attestation |-> NoToken]

NotJson == [t |-> "notjson", services |-> <<>>, attestation |-> NoToken]

Http(status, body) == [kind |-> "http", status |-> status, body |-> body]

TransportFailure == [kind |-> "transport", status |-> 0, body |-> NoBody]

Timeout == [kind |-> "timeout", status |-> 0, body |-> NoBody]

Failures ==
  {TransportFailure, Timeout, Http(500, NoBody), Http(200, NotJson)}

\* resp.raise_for_status()
StatusRaises(r) == r.status < 200 \/ r.status >= 300

\* the try block: the request, raise_for_status() and resp.json() all passed
FetchOk(r) == r.kind = "http" /\ ~StatusRaises(r) /\ r.body.t # "notjson"

\* data.get(...) right after the try block needs a JSON object
DataGetRaises(r) == r.body.t # "object"

\* faulty variant: a failed request is sent once more
RequestsWithRetry(method, path, r) ==
  IF FetchOk(r) THEN <<[method |-> method, path |-> path]>>
  ELSE <<[method |-> method, path |-> path], [method |-> method, path |-> path]>>

\* the requests one invocation sends: the single client.get / client.post
Requests(method, path, r) == <<[method |-> method, path |-> path]>>

----------------------------------------------------------------------------
(* Arguments *)

NoArgs ==
  [query |-> <<>>, capability |-> "", max_price_usd |-> 0, min_quality |-> "",
   category |-> "", service_id |-> "", raw |-> FALSE,
   name |-> <<>>, endpoint_url |-> <<>>, description |-> <<>>,
   price_per_call |-> 0, capability_tags |-> <<>>]

DiscoverArgs ==
  {[NoArgs EXCEPT !.query = q, !.capability = c, !.max_price_usd = p,
                  !.min_quality = m] :
     q \in {<<>>, <<"W">>}, c \in {"", "research"},
     p \in {DefaultMaxPrice, 1000000},
     m \in {"gold", "bronze", "unverified"}}

----------------------------------------------------------------------------
(* Service records the backend may hold *)

WeatherX ==
  [name |-> Str(<<"W", "x">>), description |-> Str(<<"w">>),
   price_per_call |-> Num(10), quality_tier |-> Tier("gold"),
   capability_tags |-> Tags({"research"}), category |-> NoCat]

WeatherY ==
  [name |-> Str(<<"W", "y">>), description |-> NoStr,
   price_per_call |-> Num(600), quality_tier |-> Tier("silver"),
   capability_tags |-> Tags({"data"}), category |-> Cat("research")]

Crawler ==
  [name |-> Str(<<"x", "w">>), description |-> Str(<<"z">>),
   price_per_call |-> NumStr(10), quality_tier |-> Tier("bronze"),
   capability_tags |-> Tags({"data"}), category |-> Cat("data")]

Bare ==
  [name |-> Str(<<"z">>), description |-> NoStr,
   price_per_call |-> NoNum, quality_tier |-> NoTier,
   capability_tags |-> NoTags, category |-> NoCat]

FreeText ==
  [name |-> Str(<<"w">>), description |-> NoStr,
   price_per_call |-> BadStr, quality_tier |-> Tier("gold"),
   capability_tags |-> Tags({"research"}), category |-> NoCat]

Untyped ==
  [name |-> NullStr, description |-> NoStr,
   price_per_call |-> Num(10), quality_tier |-> NullTier,
   capability_tags |-> NullTags, category |-> NoCat]

WellTyped == {WeatherX, WeatherY, Crawler, Bare}

AnyRecord == WellTyped \cup {FreeText, Untyped}

----------------------------------------------------------------------------
(* x402_discover *)

Raised == [outcome |-> "raised", result |-> "fault", top |-> <<>>]

Text(what, top) == [outcome |-> "text", result |-> what, top |-> top]

Discover(a, r) ==
  IF ~FetchOk(r) THEN Text("error", <<>>)
  ELSE IF DataGetRaises(r) THEN Raised
  ELSE IF FilterRaises(r.body.services, a) THEN Raised
  ELSE
    LET f == Filtered(r.body.services, a) IN
    IF \E i \in 1..Len(f) : ScoreRaises(f[i], a) THEN Raised
    ELSE
      LET top == Top(SortScored(Scored(f, a))) IN
      IF top = <<>> THEN Text("nomatch", <<>>)
      ELSE IF FormatRaises(top) THEN Raised
      ELSE Text("found", top)

x402_discover(Responses) ==
  /\ pc = "idle"
  /\ \E a \in DiscoverArgs, r \in Responses :
       \E out \in {Discover(a, r)} :
         /\ pc' = "done"
         /\ tool' = "x402_discover"
         /\ args' = a
         /\ resp' = r
         /\ outcome' = out.outcome
         /\ result' = out.result
         /\ listed' = out.top
         /\ sent' = Requests("GET", "/catalog", r)
  /\ UNCHANGED <<shown, payload, regCalls, posts>>

\* the invocation is over; the next one starts from nothing (no state is kept)
Return ==
  /\ pc = "done"
  /\ pc' = "idle"
  /\ tool' = "none"
  /\ args' = NoArgs
  /\ resp' = NoResp
  /\ outcome' = "none"
  /\ result' = "none"
  /\ listed' = <<>>
  /\ shown' = <<>>
  /\ payload' = <<>>
  /\ sent' = <<>>
  /\ UNCHANGED <<regCalls, posts>>

Init ==
  /\ pc = "idle"
  /\ tool = "none"
  /\ args = NoArgs
  /\ resp = NoResp
  /\ outcome = "none"
  /\ result = "none"
  /\ listed = <<>>
  /\ shown = <<>>
  /\ payload = <<>>
  /\ sent = <<>>
  /\ regCalls = 0
  /\ posts = 0

CatalogResponses ==
  {Http(200, Catalog(c)) : c \in SeqsUpTo(WellTyped, MaxCatalog)}

NextDiscover == x402_discover(CatalogResponses \cup Failures) \/ Return

SpecDiscover == Init /\ [][NextDiscover]_vars

----------------------------------------------------------------------------
(* x402_browse *)

BrowseLimit == 20

\* services.sort(key=quality rank), stable
RECURSIVE InsertByTier(_, _)
InsertByTier(sorted, s) ==
  IF sorted = <<>> THEN <<s>>
  ELSE IF QRank(s) < QRank(Head(sorted)) THEN <<s>> \o sorted
  ELSE <<Head(sorted)>> \o InsertByTier(Tail(sorted), s)

RECURSIVE SortByTier(_)
SortByTier(seq) ==
  IF seq = <<>> THEN <<>>
  ELSE InsertByTier(SortByTier(SubSeq(seq, 1, Len(seq) - 1)), seq[Len(seq)])

\* services[:20]
BrowseShown(services) ==
  LET sorted == SortByTier(services) IN
    SubSeq(sorted, 1,
           IF Len(sorted) < BrowseLimit THEN Len(sorted) ELSE BrowseLimit)

Browse(r) ==
  IF ~FetchOk(r) THEN Text("error", <<>>)
  ELSE IF DataGetRaises(r) THEN Raised
  ELSE IF r.body.services = <<>> THEN Text("empty", <<>>)
  ELSE
    LET rows == BrowseShown(r.body.services) IN
    IF \E i \in 1..Len(rows) : rows[i].quality_tier.t = "null" THEN Raised
    ELSE Text("catalog", <<>>)

x402_browse(Responses) ==
  /\ pc = "idle"
  /\ \E c \in {"", "data"}, r \in Responses :
       LET out == Browse(r) IN
         /\ pc' = "done"
         /\ tool' = "x402_browse"
         /\ args' = [NoArgs EXCEPT !.category = c]
         /\ resp' = r
         /\ outcome' = out.outcome
         /\ result' = out.result
         /\ sent' = Requests("GET", "/catalog", r)
  /\ UNCHANGED <<listed, shown, payload, regCalls, posts>>

----------------------------------------------------------------------------
(* x402_health *)

ObjectBody == Catalog(<<>>)

Health(r) ==
  IF r.kind = "http" /\ r.status = 404 THEN Text("notfound", <<>>)
  ELSE IF ~FetchOk(r) THEN Text("error", <<>>)
  ELSE IF DataGetRaises(r) THEN Raised
  ELSE Text("report", <<>>)

x402_health ==
  /\ pc = "idle"
  /\ \E r \in Failures \cup
              {Http(404, NoBody), Http(200, ObjectBody), Http(200, ArrayBody)} :
       LET out == Health(r) IN
         /\ pc' = "done"
         /\ tool' = "x402_health"
         /\ args' = [NoArgs EXCEPT !.service_id = "svc"]
         /\ resp' = r
         /\ outcome' = out.outcome
         /\ result' = out.result
         /\ sent' = Requests("GET", "/health", r)
  /\ UNCHANGED <<listed, shown, payload, regCalls, posts>>

----------------------------------------------------------------------------
(* x402_register *)

\* str.split(sep)
RECURSIVE Split(_, _)
Split(s, sep) ==
  IF \A i \in 1..Len(s) : s[i] # sep THEN <<s>>
  ELSE
    LET k == CHOOSE i \in 1..Len(s) :
               s[i] = sep /\ \A j \in 1..(i - 1) : s[j] # sep
    IN <<SubSeq(s, 1, k - 1)>> \o Split(SubSeq(s, k + 1, Len(s)), sep)

RECURSIVE LStrip(_)
LStrip(s) == IF s # <<>> /\ Head(s) = " " THEN LStrip(Tail(s)) ELSE s

RECURSIVE RStrip(_)
RStrip(s) ==
  IF s # <<>> /\ s[Len(s)] = " " THEN RStrip(SubSeq(s, 1, Len(s) - 1)) ELSE s

\* str.strip()
Strip(s) == RStrip(LStrip(s))

\* [t.strip() for t in capability_tags.split(",") if t.strip()]
TagList(capability_tags) ==
  LET pieces == Split(capability_tags, ",")
      kept == SelectSeq(pieces, LAMBDA x : Strip(x) # <<>>)
  IN [i \in 1..Len(kept) |-> Strip(kept[i])]

RegistrationPayload(a) ==
  [name |-> a.name, endpoint_url |-> a.endpoint_url,
   description |-> a.description, price_per_call |-> a.price_per_call,
   capability_tags |-> TagList(a.capability_tags)]

Register(a, r) ==
  IF ~FetchOk(r) THEN Text("error", <<>>)
  ELSE IF DataGetRaises(r) THEN Raised
  ELSE Text("registered", <<>>)

Research == <<"r", "e", "s", "e", "a", "r", "c", "h">>

RegisterArgs ==
  {[NoArgs EXCEPT !.name = n, !.endpoint_url = u, !.description = d,
                  !.price_per_call = p, !.capability_tags = c] :
     n \in {<<>>, <<"W", "x">>}, u \in {<<>>, <<"u">>},
     d \in {<<>>, <<"d">>}, p \in {-1, 0, 5},
     c \in {<<>>, Research, <<" ", ",", " ">>,
            <<" ">> \o Research \o <<" ", ",", "d", ",">>}}

x402_register ==
  /\ pc = "idle"
  /\ regCalls < MaxCalls
  /\ \E a \in RegisterArgs,
        r \in Failures \cup {Http(422, NoBody), Http(200, ObjectBody),
                             Http(200, ArrayBody)} :
       LET out == Register(a, r) IN
         /\ pc' = "done"
         /\ tool' = "x402_register"
         /\ args' = a
         /\ resp' = r
         /\ outcome' = out.outcome
         /\ result' = out.result
         /\ payload' = <<RegistrationPayload(a)>>
         /\ sent' = Requests("POST", "/register", r)
         /\ regCalls' = regCalls + 1
         /\ posts' = posts + Len(Requests("POST", "/register", r))
  /\ UNCHANGED <<listed, shown>>

----------------------------------------------------------------------------
(* x402_attest *)

JwtShown == 120
MaxSegments == 4     \* most dot-separated segments of a token the backend issues

B64Chars ==
  <<"A", "B", "C", "D", "E", "F", "G", "H", "I", "J", "K", "L", "M", "N", "O",
    "P", "Q", "R", "S", "T", "U", "V", "W", "X", "Y", "Z", "a", "b", "c", "d",
    "e", "f", "g", "h", "i", "j", "k", "l", "m", "n", "o", "p", "q", "r", "s",
    "t", "u", "v", "w", "x", "y", "z", "0", "1", "2", "3", "4", "5", "6", "7",
    "8", "9", "+", "/">>

InB64(c) == \E i \in 1..Len(B64Chars) : B64Chars[i] = c

B64Value(c) == (CHOOSE i \in 1..Len(B64Chars) : B64Chars[i] = c) - 1

\* the translation urlsafe_b64decode applies before decoding
UrlSafe(c) ==
  CASE c = "-" -> "+"
    [] c = "_" -> "/"
    [] OTHER -> c

\* binascii.a2b_base64 as b64decode calls it (not strict): characters outside
\* the alphabet are skipped, a completed pad sequence ends the input, and a
\* quad left incomplete at the end is an error
RECURSIVE A2bBase64(_, _, _, _, _)
A2bBase64(s, quad, pads, left, out) ==
  IF s = <<>> THEN [ok |-> quad = 0, bytes |-> out]
  ELSE
    LET c == Head(s)
        rest == Tail(s)
    IN
      IF c = "=" THEN
        IF quad >= 2 /\ quad + pads + 1 >= 4 THEN [ok |-> TRUE, bytes |-> out]
        ELSE A2bBase64(rest, quad, IF quad >= 2 THEN pads + 1 ELSE pads,
                       left, out)
      ELSE IF ~InB64(c) THEN A2bBase64(rest, quad, pads, left, out)
      ELSE
        LET v == B64Value(c) IN
          CASE quad = 0 -> A2bBase64(rest, 1, 0, v, out)
            [] quad = 1 ->
                 A2bBase64(rest, 2, 0, v % 16,
                           Append(out, left * 4 + (v \div 16)))
            [] quad = 2 ->
                 A2bBase64(rest, 3, 0, v % 4,
                           Append(out, left * 16 + (v \div 4)))
            [] OTHER ->
                 A2bBase64(rest, 0, 0, 0, Append(out, left * 64 + v))

\* _b64.urlsafe_b64decode(parts[1] + padding)
UrlsafeB64decode(seg) ==
  LET padded == seg \o <<"=", "=">> IN
    A2bBase64([i \in 1..Len(padded) |-> UrlSafe(padded[i])], 0, 0, 0, <<>>)

\* a parsed JSON value, as far as the report reads it: for an object, whether
\* each key the report reads through .get() is absent, an object, or a value
\* that has no .get()
JObject(quality) ==
  [t |-> "object", quality |-> quality, facilitator |-> "absent",
   chain |-> "absent"]
JOther == [t |-> "other", quality |-> "absent", facilitator |-> "absent",
           chain |-> "absent"]
JError == [t |-> "error", quality |-> "absent", facilitator |-> "absent",
           chain |-> "absent"]

\* _json.loads on the byte strings the tokens below decode to
JsonLoads(bytes) ==
  CASE bytes = <<123, 125>> -> JObject("absent")                   \* {}
    [] bytes = <<123, 34, 113, 117, 97, 108, 105, 116, 121, 34, 58, 123, 125,
                 125>> -> JObject("dict")                    \* {"quality":{}}
    [] bytes = <<123, 34, 113, 117, 97, 108, 105, 116, 121, 34, 58, 49, 125>>
         -> JObject("other")                                  \* {"quality":1}
    [] bytes = <<49>> -> JOther                                     \* 1
    [] OTHER -> JError

\* quality.get / facilitator.get / len(chain), cv.get
ShapeRaises(p) ==
  p.quality = "other" \/ p.facilitator = "other" \/ p.chain = "other"

Prefix(s, n) == SubSeq(s, 1, IF Len(s) < n THEN Len(s) ELSE n)

Fallback(jwt) == [result |-> "fallback", shown |-> jwt]

\* the try block that decodes the token, and its except branch
DecodeReport(jwt) ==
  LET parts == Split(jwt, ".") IN
    IF Len(parts) < 2 THEN Fallback(jwt)
    ELSE
      LET d == UrlsafeB64decode(parts[2]) IN
        IF ~d.ok THEN Fallback(jwt)
        ELSE
          LET p == JsonLoads(d.bytes) IN
            IF p.t # "object" THEN Fallback(jwt)
            ELSE IF ShapeRaises(p) THEN Fallback(jwt)
            ELSE [result |-> "report", shown |-> Prefix(jwt, JwtShown)]

\* data.get("attestation", "")
JwtOf(r) ==
  IF r.body.attestation.t = "str" THEN r.body.attestation.v ELSE <<>>

Attest(a, r) ==
  IF r.kind = "http" /\ r.status = 404 THEN [result |-> "notfound", shown |-> <<>>]
  ELSE IF r.kind = "http" /\ r.status = 503 THEN
    [result |-> "unconfigured", shown |-> <<>>]
  ELSE IF ~FetchOk(r) THEN [result |-> "error", shown |-> <<>>]
  ELSE IF DataGetRaises(r) THEN [result |-> "fault", shown |-> <<>>]
  ELSE IF a.raw THEN [result |-> "raw", shown |-> JwtOf(r)]
  ELSE DecodeReport(JwtOf(r))

\* payload segments
SegEmptyObject == <<"e", "3", "0">>
SegQualityObject ==
  <<"e", "y", "J", "x", "d", "W", "F", "s", "a", "X", "R", "5", "I", "j", "p",
    "7", "f", "X", "0">>
SegQualityNumber ==
  <<"e", "y", "J", "x", "d", "W", "F", "s", "a", "X", "R", "5", "I", "j", "o",
    "x", "f", "Q">>
SegNumber == <<"M", "Q">>
SegOpenBrace == <<"e", "w">>
SegOneChar == <<"e">>
SegStray == <<"e", "3", "!", "0">>

ValidSegs == {SegEmptyObject, SegQualityObject}

MalformedSegs ==
  {SegQualityNumber, SegNumber, SegOpenBrace, SegOneChar, SegStray, <<>>}

ShortSig == <<"c", "2", "l", "n">>
LongSig == [i \in 1..JwtShown |-> "A"]

RECURSIVE Join(_)
Join(segs) ==
  IF Len(segs) = 1 THEN segs[1]
  ELSE segs[1] \o <<".">> \o Join(Tail(segs))

\* a token of k segments with payload p as its second (or only) segment
Token(k, p, sig) ==
  Join([i \in 1..k |->
          IF i = 2 \/ k = 1 THEN p
          ELSE IF i = 1 THEN SegEmptyObject ELSE sig])

Tokens ==
  {Token(k, p, sig) : k \in 1..MaxSegments,
                      p \in ValidSegs \cup MalformedSegs,
                      sig \in {ShortSig, LongSig}}

AttestBody(token) ==
  [t |-> "object", services |-> <<>>,
   attestation |-> [t |-> "str", v |-> token]]

x402_attest ==
  /\ pc = "idle"
  /\ \E raw \in BOOLEAN,
        r \in Failures \cup {Http(404, NoBody), Http(503, NoBody),
                             Http(200, ObjectBody), Http(200, ArrayBody)}
                       \cup {Http(200, AttestBody(k)) : k \in Tokens} :
       LET a == [NoArgs EXCEPT !.service_id = "svc", !.raw = raw]
           out == Attest(a, r)
       IN
         /\ pc' = "done"
         /\ tool' = "x402_attest"
         /\ args' = a
         /\ resp' = r
         /\ outcome' = IF out.result = "fault" THEN "raised" ELSE "text"
         /\ result' = out.result
         /\ shown' = out.shown
         /\ sent' = Requests("GET", "/v1/attest", r)
  /\ UNCHANGED <<listed, payload, regCalls, posts>>

----------------------------------------------------------------------------
(* The server: any tool, one invocation at a time *)

MaxFaultyCatalog == 2   \* longest catalog that may hold ill-typed records

FaultyResponses ==
  {Http(200, Catalog(c)) : c \in SeqsUpTo(AnyRecord, MaxFaultyCatalog)}
    \cup {Http(200, ArrayBody)} \cup Failures

Next ==
  \/ x402_discover(FaultyResponses)
  \/ x402_browse(FaultyResponses)
  \/ x402_health
  \/ x402_register
  \/ x402_attest
  \/ Return

Spec == Init /\ [][Next]_vars

----------------------------------------------------------------------------
(* Properties of x402_discover *)

Min(a, b) == IF a < b THEN a ELSE b

\* x402_discover has returned its text
DiscoverReturned ==
  pc = "done" /\ tool = "x402_discover" /\ outcome = "text"

CatalogOf(r) == r.body.services

CountOf(services, Keep(_)) ==
  Cardinality({i \in 1..Len(services) : Keep(services[i])})

IsListed(s) == \E i \in 1..Len(listed) : listed[i].s = s

\* the tier a record counts as: a record with no quality_tier is unverified
TierOf(s) ==
  IF s.quality_tier.t = "absent" THEN "unverified" ELSE s.quality_tier.v

\* C1: every service x402_discover lists has price_per_call <= max_price_usd;
\* a record with no price_per_call is compared as the sentinel, so it is
\* listed only under a ceiling that reaches the sentinel.
C1_ListedWithinPrice ==
  DiscoverReturned =>
    \A i \in 1..Len(listed) :
      LET p == listed[i].s.price_per_call IN
        /\ p.t \in {"num", "str", "absent"}
        /\ p.t # "absent" => p.v <= args.max_price_usd
        /\ p.t = "absent" => MissingPrice <= args.max_price_usd

\* a result under the default ceiling, from a catalog that holds a record
\* above the ceiling and a record with no price, neither of them listed
C1_Witness ==
  /\ DiscoverReturned
  /\ result = "found"
  /\ args.max_price_usd = DefaultMaxPrice
  /\ args.min_quality = "unverified"
  /\ args.query = <<>>
  /\ \E i \in 1..Len(CatalogOf(resp)) : CatalogOf(resp)[i] = Bare
  /\ \E i \in 1..Len(CatalogOf(resp)) : CatalogOf(resp)[i] = WeatherY
  /\ ~IsListed(Bare)
  /\ ~IsListed(WeatherY)

\* C2: every service x402_discover lists has rank(quality_tier) <=
\* rank(min_quality) under gold=0, silver=1, bronze=2, unverified=3, a record
\* with no quality_tier counting as unverified.
C2_ListedWithinQuality ==
  DiscoverReturned =>
    \A i \in 1..Len(listed) :
      quality_order(TierOf(listed[i].s)) <= quality_order(args.min_quality)

\* a result with floor bronze from a catalog that holds a record with no
\* tier, which is not listed, and a bronze record, which is
C2_Witness ==
  /\ DiscoverReturned
  /\ args.min_quality = "bronze"
  /\ args.max_price_usd > MissingPrice
  /\ args.query = <<>>
  /\ \E i \in 1..Len(CatalogOf(resp)) : CatalogOf(resp)[i] = Bare
  /\ ~IsListed(Bare)
  /\ IsListed(Crawler)

\* the capability rule as the specification words it: the capability is one
\* of the record's tags or equals its category
OnCapabilityAxes(s, a) ==
  \/ a.capability \in s.capability_tags.v
  \/ s.category.t = "str" /\ s.category.v = a.capability

PassesSpecFilter(s, a) ==
  /\ KeepCond(s, a)
  /\ a.capability # "" => OnCapabilityAxes(s, a)

C3_WitnessDropped ==
  /\ DiscoverReturned
  /\ args.query # <<>>
  /\ Len(listed) = 2
  /\ \E i \in 1..Len(CatalogOf(resp)) :
       /\ KeepCond(CatalogOf(resp)[i], args)
       /\ Score(CatalogOf(resp)[i], args) = 0

\* the relevance score as the claim words it
ClaimScore(s, a) ==
  LET q == LowerStr(a.query) IN
    (IF Contains(TextOf(s.name), q) THEN 3 ELSE 0)
  + (IF Contains(TextOf(s.description), q) THEN 2 ELSE 0)
  + (IF a.capability # "" /\ a.capability \in s.capability_tags.v
     THEN 5 ELSE 0)

\* C4: the listed services are in non-increasing order of relevance score,
\* and adjacent services of equal score are in non-decreasing order of
\* quality rank.
C4_RankedOrder ==
  DiscoverReturned =>
    /\ \A i \in 1..Len(listed) :
         listed[i].score = ClaimScore(listed[i].s, args)
    /\ \A i \in 1..(Len(listed) - 1) :
         /\ listed[i].score >= listed[i + 1].score
         /\ listed[i].score = listed[i + 1].score =>
              quality_order(TierOf(listed[i].s))
                <= quality_order(TierOf(listed[i + 1].s))

\* the catalog had a bronze record ahead of a silver one of equal score and a
\* higher-scoring record behind both; the result has all three reordered
C4_Witness ==
  /\ DiscoverReturned
  /\ Len(CatalogOf(resp)) = 3
  /\ CatalogOf(resp) = <<Crawler, WeatherY, WeatherX>>
  /\ Len(listed) = 3
  /\ listed[1].s = WeatherX
  /\ listed[2].s = WeatherY
  /\ listed[3].s = Crawler
  /\ listed[1].score > listed[2].score
  /\ listed[2].score = listed[3].score

\* C8 as stated: with a capability given, no listed service lacks the
\* capability both in capability_tags and as category.
C8_ListedHaveCapability ==
  DiscoverReturned /\ args.capability # "" =>
    \A i \in 1..Len(listed) : OnCapabilityAxes(listed[i].s, args)

----------------------------------------------------------------------------
(* Properties of the tools' boundary *)

\* C5 as stated: every invocation of every tool ends by returning text; no
\* fault escapes to the caller, whatever the backend answers.
C5_NoFaultEscapes == pc = "done" => outcome = "text"

\* C10: an invocation sends at most one request, also when the request
\* fails (the tool then returns its text), and the POST /register requests
\* sent never outnumber the invocations of x402_register.
C10_AtMostOneRequest ==
  /\ Len(sent) <= 1
  /\ posts <= regCalls
  /\ pc = "done" /\ ~FetchOk(resp) => outcome = "text"
  /\ pc = "done" /\ tool = "x402_register" =>
       sent = <<[method |-> "POST", path |-> "/register"]>>

\* the second x402_register in a row has timed out: one POST each, error text
C10_Witness ==
  /\ pc = "done"
  /\ tool = "x402_register"
  /\ resp = Timeout
  /\ result = "error"
  /\ regCalls = 2
  /\ posts = 2
  /\ Len(sent) = 1

----------------------------------------------------------------------------
(* Properties of x402_register *)

\* a submission the specification's normalize() rejects
InvalidSubmission(a) ==
  \/ a.name = <<>>
  \/ a.endpoint_url = <<>>
  \/ a.description = <<>>
  \/ TagList(a.capability_tags) = <<>>
  \/ a.price_per_call < 0

\* C7 as stated: a submission with an empty required field, no tag after
\* splitting, or a negative price ends in a validation error and no
\* registration payload goes to the backend; a complete submission with the
\* single tag "research" is accepted with capability_tags = ["research"].
C7_InvalidRejected ==
  pc = "done" /\ tool = "x402_register" =>
    /\ InvalidSubmission(args) =>
         result = "validation_error" /\ payload = <<>> /\ sent = <<>>
    /\ ~InvalidSubmission(args) /\ args.capability_tags = Research =>
         payload[1].capability_tags = <<Research>>

----------------------------------------------------------------------------
(* Properties of x402_attest *)

\* x402_attest (raw = false) has received a 2xx JSON object with a token
AttestDecoded ==
  /\ pc = "done"
  /\ tool = "x402_attest"
  /\ ~args.raw
  /\ FetchOk(resp)
  /\ resp.body.attestation.t = "str"

UrlAlphabet(c) == c = "-" \/ c = "_" \/ (InB64(c) /\ c # "+" /\ c # "/")

NotBase64Url(seg) == \E i \in 1..Len(seg) : ~UrlAlphabet(seg[i])

\* a payload segment that is not base64url, not JSON, or not a JSON object of
\* the shape the report reads
MalformedPayload(seg) == NotBase64Url(seg) \/ seg \in MalformedSegs

\* C6 as stated: a three-segment token whose payload segment is malformed
\* ends in the fallback report, which holds the complete token.
C6_MalformedFallsBack ==
  AttestDecoded =>
    LET parts == Split(JwtOf(resp), ".") IN
      (Len(parts) = 3 /\ MalformedPayload(parts[2]) =>
         outcome = "text" /\ result = "fallback" /\ shown = JwtOf(resp))

\* C9 as stated: every token that does not have exactly three segments ends
\* in the fallback report.
C9_WrongSegmentCountFallsBack ==
  AttestDecoded =>
    (Len(Split(JwtOf(resp), ".")) # 3 => result = "fallback")

====
